---------------------------- MODULE Spec2Model ----------------------------
(***************************************************************************)
(* A model of nomad_perotf/parsers/perotf_batch_parser.py: the experiment  *)
(* table parser PeroTFExperimentParser.parse and the row mappers it calls. *)
(*                                                                         *)
(* Python values are tagged records: a str is the sequence of its          *)
(* characters, a number is a fraction in lowest terms (the exact value of  *)
(* the float arithmetic; rounding is not modelled), NaN is a missing cell  *)
(* and None is Python's None.  A raised exception is the value Raise(e).   *)
(***************************************************************************)
EXTENDS Integers, Sequences, FiniteSets, TLC

VARIABLES
    table,        \* df: the table read_excel returned (headers and rows)
    upload_id,    \* archive.metadata.upload_id
    pc,           \* the statement of parse that runs next
    g,            \* position in the loop over the column groups (line 751)
    k,            \* position in the current loop over rows
    sample_ids,   \* sample_ids (line 711)
    substrates,   \* substrates (line 714): <<name, sub, record>>
    archives,     \* archives (line 713): <<name, record>>
    calls,        \* the calls of process mappers made so far, in order
    created,      \* the calls of create_archive made so far, in order
    refs,         \* refs (line 797)
    data,         \* archive.data
    error         \* the exception that ended parse, if any

vars == <<table, upload_id, pc, g, k, sample_ids, substrates, archives,
          calls, created, refs, data, error>>

---------------------------------------------------------------------------
(* Python values *)

NaN == [t |-> "nan"]
None == [t |-> "none"]
Str(s) == [t |-> "str", s |-> s]
Raise(e) == [t |-> "raise", exc |-> e]

RECURSIVE Gcd(_, _)
Gcd(a, b) == IF b = 0 THEN a ELSE Gcd(b, a % b)

Abs(a) == IF a < 0 THEN -a ELSE a

\* The fraction n/d (d > 0) in lowest terms.
Frac(n, d) ==
    LET c == Gcd(Abs(n), d)
    IN  IF n = 0 THEN [t |-> "num", n |-> 0, d |-> 1]
        ELSE [t |-> "num", n |-> n \div c, d |-> d \div c]

Num(n) == Frac(n, 1)

IsStr(v) == v.t = "str"
IsNum(v) == v.t = "num"
IsRaise(v) == v.t = "raise"

\* pd.isna of a scalar: NaN and None are missing.
isna(v) == v.t \in {"nan", "none"}

\* Python's truth value of a scalar (what `if x` and `not x` test).
Truthy(v) ==
    CASE v.t = "none" -> FALSE
      [] v.t = "str" -> v.s # <<>>
      [] v.t = "num" -> v.n # 0
      [] OTHER -> TRUE

Digits == <<"0", "1", "2", "3", "4", "5", "6", "7", "8", "9">>

DigitValue(c) == CHOOSE i \in 0..9 : Digits[i + 1] = c

IsDigit(c) == \E i \in 1..10 : Digits[i] = c

RECURSIVE NatToChars(_)
NatToChars(n) ==
    IF n < 10 THEN <<Digits[n + 1]>>
    ELSE NatToChars(n \div 10) \o <<Digits[(n % 10) + 1]>>

RECURSIVE CharsToNat(_)
CharsToNat(s) ==
    IF s = <<>> THEN 0
    ELSE 10 * CharsToNat(SubSeq(s, 1, Len(s) - 1)) + DigitValue(s[Len(s)])

\* f'{v}': the text an f-string puts for a value.
Format(v) ==
    CASE v.t = "str" -> v.s
      [] v.t = "nan" -> <<"n", "a", "n">>
      [] v.t = "none" -> <<"N", "o", "n", "e">>
      [] v.t = "num" ->
            IF v.d = 1 /\ v.n >= 0 THEN NatToChars(v.n)
            ELSE <<"?">>

ArchiveSuffix ==
    <<".", "a", "r", "c", "h", "i", "v", "e", ".", "j", "s", "o", "n">>

\* f'{name}.archive.json'
ArchiveFileName(name) == Format(name) \o ArchiveSuffix

\* s.split('_'): the pieces between the underscores, at least one.
RECURSIVE Split(_, _)
Split(s, sep) ==
    IF \A i \in 1..Len(s) : s[i] # sep THEN <<s>>
    ELSE LET p == CHOOSE i \in 1..Len(s) :
                      s[i] = sep /\ \A j \in 1..(i - 1) : s[j] # sep
         IN  <<SubSeq(s, 1, p - 1)>> \o Split(SubSeq(s, p + 1, Len(s)), sep)

\* sep.join(parts)
RECURSIVE Join(_, _)
Join(parts, sep) ==
    IF parts = <<>> THEN <<>>
    ELSE IF Len(parts) = 1 THEN parts[1]
    ELSE parts[1] \o <<sep>> \o Join(Tail(parts), sep)

\* seq[:-1]
DropLast(seq) == IF seq = <<>> THEN <<>> ELSE SubSeq(seq, 1, Len(seq) - 1)

Whitespace == {" ", "\t", "\n"}

\* s.strip()
RECURSIVE Strip(_)
Strip(s) ==
    IF s = <<>> THEN s
    ELSE IF Head(s) \in Whitespace THEN Strip(Tail(s))
    ELSE IF s[Len(s)] \in Whitespace THEN Strip(DropLast(s))
    ELSE s

\* s.lower(), on the letters the tables use.
LowerChar(c) ==
    CASE c = "Y" -> "y"
      [] c = "N" -> "n"
      [] c = "E" -> "e"
      [] c = "S" -> "s"
      [] c = "O" -> "o"
      [] OTHER -> c

Lower(s) == [i \in 1..Len(s) |-> LowerChar(s[i])]

\* s.startswith(prefix)
StartsWith(s, prefix) ==
    Len(s) >= Len(prefix) /\ SubSeq(s, 1, Len(prefix)) = prefix

RECURSIVE Pow10(_)
Pow10(n) == IF n = 0 THEN 1 ELSE 10 * Pow10(n - 1)

AllDigits(s) == s # <<>> /\ \A i \in 1..Len(s) : IsDigit(s[i])

\* float(v): a number as it is, a str parsed (digits, with an optional
\* fraction part), anything else an exception.
float(v) ==
    CASE v.t = "num" -> v
      [] v.t = "str" ->
            LET s == Strip(v.s)
                parts == Split(s, ".")
            IN  IF AllDigits(s) THEN Num(CharsToNat(s))
                ELSE IF Len(parts) = 2 /\ AllDigits(parts[1]) /\ AllDigits(parts[2])
                THEN Frac(CharsToNat(parts[1]) * Pow10(Len(parts[2]))
                            + CharsToNat(parts[2]), Pow10(Len(parts[2])))
                ELSE Raise("ValueError")
      [] v.t = "nan" -> NaN
      [] OTHER -> Raise("TypeError")

---------------------------------------------------------------------------
(* External functions *)

\* nomad.utils.hash(upload_id, file_name): a deterministic digest of its
\* arguments, taken to be free of collisions.
hash(upload, file_name) == <<"hash", upload, file_name>>

\* A variant of get_entry_id_from_file_name: the arguments of hash swapped.
get_entry_id_swapped(file_name, upload) == hash(file_name, upload)

get_entry_id_from_file_name(file_name, upload) == hash(upload, file_name)

\* f'../uploads/{upload_id}/archive/{entry_id}#data'
get_reference(upload, file_name) ==
    <<"../uploads/", upload, "/archive/",
      get_entry_id_from_file_name(file_name, upload), "#data">>

CompositeSystemReference(reference, lab_id) ==
    [reference |-> reference, lab_id |-> lab_id]

---------------------------------------------------------------------------
(* Helpers of the parser (lines 105-122) *)

\* value * factor on fractions
Times(v, f) == Frac(v.n * f.n, v.d * f.d)

\* A variant of convert_quantity without the try: the exception of float()
\* leaves the function.
convert_quantity_unguarded(value, factor) ==
    IF IsRaise(float(value)) \/ float(value).t = "nan" THEN float(value)
    ELSE Times(float(value), factor)

\* try: return float(value) * factor / except Exception: return None
convert_quantity(value, factor) ==
    LET x == float(value)
    IN  IF IsRaise(x) THEN None
        ELSE IF x.t = "nan" THEN NaN
        ELSE Times(x, factor)

\* A row (a pandas Series) is [dtype, v]: v maps column names to cells.
\* A variant of get_value: the except clause returns default instead of
\* raising again.
get_value_or_default(row, key, default, number) ==
    IF key \notin DOMAIN row.v THEN default
    ELSE IF isna(row.v[key]) THEN default
    ELSE IF number
    THEN (IF IsRaise(float(row.v[key])) THEN default ELSE float(row.v[key]))
    ELSE Str(Strip(Format(row.v[key])))

get_value(row, key, default, number) ==
    IF key \notin DOMAIN row.v THEN default
    ELSE IF isna(row.v[key]) THEN default
    ELSE IF number THEN float(row.v[key])
    ELSE Str(Strip(Format(row.v[key])))

\* row.get(key): the cell, None when the row has no such column.
RowGet(row, key) == IF key \in DOMAIN row.v THEN row.v[key] ELSE None

---------------------------------------------------------------------------
(* The table (a DataFrame with a two-level header) *)

\* Top-level headers are sequences of words; 'kw in col' is containment.
ExperimentInfo == <<"Experiment", "Info">>

Contains(col, kw) ==
    \E i \in 1..Len(col) : i + Len(kw) - 1 <= Len(col)
                            /\ SubSeq(col, i, i + Len(kw) - 1) = kw

substrates_col ==
    {"Sample dimension", "Sample area [cm^2]", "Substrate material",
     "Substrate conductive layer"}

\* The position of a top-level header among the unique headers, from 1.
HeaderIndex(df, col) == CHOOSE h \in 1..Len(df.headers) : df.headers[h] = col

NRows(df) == Len(df.rows)

\* The dtype pandas gives a column: object once a cell holds a str,
\* float64 for numbers with missing cells, int64 for whole numbers.
ColumnDtype(df, h, c) ==
    IF \E r \in 1..NRows(df) : df.rows[r][h][c].t = "str" THEN "object"
    ELSE IF \E r \in 1..NRows(df) : df.rows[r][h][c].t = "nan" THEN "float64"
    ELSE "int64"

\* The dtype of a row that iterrows takes across columns of the dtypes ds.
CommonDtype(ds) ==
    IF "object" \in ds THEN "object"
    ELSE IF ds = {"int64"} THEN "int64"
    ELSE "float64"

\* Row r of df[col][cols] as iterrows yields it.
RowOf(df, h, cols, r) ==
    [dtype |-> CommonDtype({ColumnDtype(df, h, c) : c \in cols}),
     v |-> [c \in cols |-> df.rows[r][h][c]]]

Columns(df, h) == DOMAIN df.rows[1][h]

\* x[col] for a row x of df[[h1, col]] as iterrows yields it: the cells of
\* group col, with the dtype of the row across both groups.
RowAcross(df, h1, h, r) ==
    [dtype |-> CommonDtype({ColumnDtype(df, h1, c) : c \in Columns(df, h1)}
                           \cup {ColumnDtype(df, h, c) : c \in Columns(df, h)}),
     v |-> df.rows[r][h]]

\* row[cols]: the selection keeps the dtype of the row.
Select(row, cols) == [dtype |-> row.dtype, v |-> [c \in cols |-> row.v[c]]]

\* row.astype('object')
AsObject(row) == [dtype |-> "object", v |-> row.v]

\* A variant of CellEquals: a missing cell equals nothing (NaN != NaN).
CellEqualsStrict(x, y) == ~isna(x) /\ ~isna(y) /\ x = y

\* Two cells are equal for equals and drop_duplicates: missing cells in
\* the same place count as equal.
CellEquals(x, y) == (isna(x) /\ isna(y)) \/ (~isna(x) /\ ~isna(y) /\ x = y)

\* Series.equals: same index, same dtype, same cells.
SeriesEquals(a, b) ==
    /\ DOMAIN a.v = DOMAIN b.v
    /\ a.dtype = b.dtype
    /\ \A c \in DOMAIN a.v : CellEquals(a.v[c], b.v[c])

\* A variant of AllNa: pd.isna(row).any()
AnyNa(row) == \E c \in DOMAIN row.v : isna(row.v[c])

\* pd.isna(row).all()
AllNa(row) == \A c \in DOMAIN row.v : isna(row.v[c])

\* DataFrame.duplicated: row r repeats an earlier row of the frame.
Duplicated(df, h, cols, r) ==
    \E q \in 1..(r - 1) :
        \A c \in cols : CellEquals(df.rows[q][h][c], df.rows[r][h][c])

\* df[col][cols].drop_duplicates(): the positions (from 1) of the rows
\* kept, in table order.
RECURSIVE KeptUpTo(_, _, _, _)
KeptUpTo(df, h, cols, n) ==
    IF n = 0 THEN <<>>
    ELSE KeptUpTo(df, h, cols, n - 1)
         \o (IF Duplicated(df, h, cols, n) THEN <<>> ELSE <<n>>)

drop_duplicates(df, h, cols) == KeptUpTo(df, h, cols, NRows(df))

\* The index label of the row at position r (a RangeIndex from 0).
Label(r) == Num(r - 1)

\* Series.dropna().to_list() of column c of group h
RECURSIVE DropNaUpTo(_, _, _, _)
DropNaUpTo(df, h, c, n) ==
    IF n = 0 THEN <<>>
    ELSE DropNaUpTo(df, h, c, n - 1)
         \o (IF isna(df.rows[n][h][c]) THEN <<>> ELSE <<df.rows[n][h][c]>>)

DropNa(df, h, c) == DropNaUpTo(df, h, c, NRows(df))

---------------------------------------------------------------------------
(* The string literals of the mappers, as characters *)

TxtSubstrateSuffix == <<"_", "s", "u", "b", "s", "t", "r", "a", "t", "e">>

TxtSubstrate == <<"S", "u", "b", "s", "t", "r", "a", "t", "e", " ">>

TxtSpace == <<" ">>

TxtCleaning == <<"C", "l", "e", "a", "n", "i", "n", "g">>

TxtEvaporation == <<"e", "v", "a", "p", "o", "r", "a", "t", "i", "o", "n", " ">>

TxtSpinCoating == <<"s", "p", "i", "n", " ", "c", "o", "a", "t", "i", "n", "g", " ">>

TxtInkjetPrinting == <<"i", "n", "k", "j", "e", "t", " ", "p", "r", "i", "n", "t", "i", "n", "g", " ">>

TxtDipCoating == <<"d", "i", "p", " ", "c", "o", "a", "t", "i", "n", "g", " ">>

TxtSputtering == <<"s", "p", "u", "t", "t", "e", "r", "i", "n", "g", " ">>

TxtALD == <<"a", "t", "o", "m", "i", "c", " ", "l", "a", "y", "e", "r", " ", "d", "e", "p", "o", "s", "i", "t", "i", "o", "n", " ">>

KeyCleaning == <<"_", "c", "l", "e", "a", "n", "i", "n", "g">>

KeyGeneric == <<"_", "g", "e", "n", "e", "r", "i", "c", "_", "p", "r", "o", "c", "e", "s", "s">>

KeyEvaporation == <<"_", "e", "v", "a", "p", "o", "r", "a", "t", "i", "o", "n", "_">>

KeySpinCoating == <<"_", "s", "p", "i", "n", "_", "c", "o", "a", "t", "i", "n", "g", "_">>

KeyInkjetPrinting == <<"_", "i", "n", "k", "j", "e", "t", "_", "p", "r", "i", "n", "t", "i", "n", "g", "_">>

KeyDipCoating == <<"_", "d", "i", "p", "_", "c", "o", "a", "t", "i", "n", "g", "_">>

KeySputtering == <<"_", "s", "p", "u", "t", "t", "e", "r", "i", "n", "g", "_">>

KeyALD == <<"_", "A", "L", "D", "_">>

EmptyStr == Str(<<>>)

---------------------------------------------------------------------------
(* Row mappers (lines 125-147, 428-440) *)

Ok(name, archive) == [t |-> "ok", name |-> name, archive |-> archive]

\* [CompositeSystemReference(reference=get_reference(upload_id,
\*  f'{lab_id}.archive.json'), lab_id=lab_id) for lab_id in lab_ids]
SampleReferences(lab_ids, upload) ==
    [n \in 1..Len(lab_ids) |->
        CompositeSystemReference(
            get_reference(upload, ArchiveFileName(lab_ids[n])), lab_ids[n])]

map_basic_sample(row, substrate_name, upload) ==
    Ok(row.v["Nomad ID"],
       [kind |-> "peroTF_Sample",
        name |-> row.v["Nomad ID"],
        lab_id |-> row.v["Nomad ID"],
        substrate |-> get_reference(upload, substrate_name),
        description |-> get_value(row, "Variation", None, FALSE)])

map_batch(batch_ids, batch_id, upload) ==
    Ok(batch_id,
       [kind |-> "peroTF_Batch",
        name |-> batch_id,
        lab_id |-> batch_id,
        entities |-> SampleReferences(batch_ids, upload)])

map_substrate(row) ==
    LET area == get_value(row, "Sample area [cm^2]", EmptyStr, TRUE)
    IN  IF IsRaise(area) THEN area
        ELSE [t |-> "ok",
              kind |-> "peroTF_Substrate",
              name |-> Str(TxtSubstrate
                         \o get_value(row, "Sample dimension", EmptyStr, FALSE).s
                         \o TxtSpace
                         \o get_value(row, "Substrate material", EmptyStr, FALSE).s
                         \o TxtSpace
                         \o get_value(row, "Substrate conductive layer",
                                      EmptyStr, FALSE).s),
              solar_cell_area |-> area,
              substrate |-> get_value(row, "Substrate material", EmptyStr, FALSE),
              conducting_material |->
                  <<get_value(row, "Substrate conductive layer", EmptyStr, FALSE)>>]

---------------------------------------------------------------------------
(* Process mappers (lines 150-278, 392-425, 443-678) *)

\* The first exception among the values vs, in the order they are computed.
RECURSIVE FirstRaise(_)
FirstRaise(vs) ==
    IF vs = <<>> THEN None
    ELSE IF IsRaise(Head(vs)) THEN Head(vs)
    ELSE FirstRaise(Tail(vs))

LayerProperties(row) ==
    [layer_type |-> get_value(row, "Layer type", None, FALSE),
     layer_material_name |-> get_value(row, "Material name", None, FALSE)]

\* ' '.join(col.split(' ')[:2]) of the solvent and solute columns
SolutionPrefix(col) ==
    CASE col \in {"Solvent 1 name", "Solvent 1 volume [uL]"} -> "Solvent 1"
      [] col \in {"Solvent 2 name", "Solvent 2 volume [uL]"} -> "Solvent 2"
      [] col \in {"Solute 1 type", "Solute 1 Concentration [mM]"} -> "Solute 1"
      [] col \in {"Solute 2 type", "Solute 2 Concentration [mM]"} -> "Solute 2"
      [] OTHER -> col

\* sorted(set(solvents)), sorted(set(solutes))
SortedSolvents(row) ==
    LET found == {SolutionPrefix(c) : c \in DOMAIN row.v}
    IN  (IF "Solvent 1" \in found THEN <<"Solvent 1">> ELSE <<>>)
        \o (IF "Solvent 2" \in found THEN <<"Solvent 2">> ELSE <<>>)

SortedSolutes(row) ==
    LET found == {SolutionPrefix(c) : c \in DOMAIN row.v}
    IN  (IF "Solute 1" \in found THEN <<"Solute 1">> ELSE <<>>)
        \o (IF "Solute 2" \in found THEN <<"Solute 2">> ELSE <<>>)

\* One pass of the loop of lines 161-176, from the two cells it reads:
\* the solvent is skipped, or a SolutionChemical is made, or get_value
\* raised.
SolventChemical(name, volume) ==
    IF IsRaise(volume) THEN volume
    ELSE IF ~Truthy(name) /\ ~Truthy(volume) THEN [t |-> "skip"]
    ELSE [t |-> "ok",
          chemical_2 |-> [name |-> name],
          chemical_volume |-> convert_quantity(volume, Frac(1, 1000))]

\* One pass of the loop of lines 177-191, from the two cells it reads.
SoluteChemical(type, conc) ==
    IF IsRaise(conc) THEN conc
    ELSE IF ~Truthy(type) /\ ~Truthy(conc) THEN [t |-> "skip"]
    ELSE [t |-> "ok",
          chemical_2 |-> [name |-> type],
          concentration_mol |-> convert_quantity(conc, Frac(1, 1000))]

\* The chemicals the passes appended, in order.
RECURSIVE Collect(_)
Collect(passes) ==
    IF passes = <<>> THEN <<>>
    ELSE (IF Head(passes).t = "ok" THEN <<Head(passes)>> ELSE <<>>)
         \o Collect(Tail(passes))

\* Solution(solvent=final_solvents, solute=final_solutes), or the
\* exception of the first pass that raised.
Solution(solvent_passes, solute_passes) ==
    IF IsRaise(FirstRaise(solvent_passes \o solute_passes))
    THEN FirstRaise(solvent_passes \o solute_passes)
    ELSE [t |-> "ok",
          solvent |-> Collect(solvent_passes),
          solute |-> Collect(solute_passes)]

SolventPasses(row, solvents) ==
    [n \in 1..Len(solvents) |->
        SolventChemical(get_value(row, solvents[n] \o " name", None, FALSE),
                        get_value(row, solvents[n] \o " volume [uL]", None, TRUE))]

SolutePasses(row, solutes) ==
    [n \in 1..Len(solutes) |->
        SoluteChemical(get_value(row, solutes[n] \o " type", None, FALSE),
                       get_value(row, solutes[n] \o " Concentration [mM]",
                                 None, TRUE))]

map_solutions(row) ==
    Solution(SolventPasses(row, SortedSolvents(row)),
             SolutePasses(row, SortedSolutes(row)))

\* AntiSolventQuenching(...) of lines 242-255 from the cells it reads, in
\* the order they are read, or the first exception raised.
AntiSolventQuenching(volume, time, height, rate, name) ==
    IF IsRaise(FirstRaise(<<volume, time, height, rate>>))
    THEN FirstRaise(<<volume, time, height, rate>>)
    ELSE [t |-> "ok",
          kind |-> "AntiSolventQuenching",
          anti_solvent_volume |-> volume,
          anti_solvent_dropping_time |-> time,
          anti_solvent_dropping_height |-> height,
          anti_solvent_dropping_flow_rate |-> rate,
          anti_solvent_2 |-> [name |-> name]]

\* VacuumQuenching(...) of lines 257-261.
VacuumQuenching(start_time, duration, pressure) ==
    IF IsRaise(FirstRaise(<<start_time, duration, pressure>>))
    THEN FirstRaise(<<start_time, duration, pressure>>)
    ELSE [t |-> "ok",
          kind |-> "VacuumQuenching",
          start_time |-> start_time,
          duration |-> duration,
          pressure |-> pressure]

\* GasQuenchingWithNozzle(...) of lines 264-274; numbers holds the six
\* numeric cells in the order they are read.
GasQuenchingWithNozzle(numbers, nozzle_shape, nozzle_size, gas) ==
    IF IsRaise(FirstRaise(numbers)) THEN FirstRaise(numbers)
    ELSE [t |-> "ok",
          kind |-> "GasQuenchingWithNozzle",
          starting_delay |-> numbers[1],
          flow_rate |-> numbers[2],
          height |-> numbers[3],
          duration |-> numbers[4],
          pressure |-> numbers[5],
          velocity |-> numbers[6],
          nozzle_shape |-> nozzle_shape,
          nozzle_size |-> nozzle_size,
          gas |-> gas]

\* A variant of Quenching: the three tests as an if / elif chain, the
\* first that holds deciding.
QuenchingFirstWins(anti, vacuum, gas) ==
    IF IsRaise(FirstRaise(<<anti, vacuum, gas>>))
    THEN FirstRaise(<<anti, vacuum, gas>>)
    ELSE IF anti # None THEN anti
    ELSE IF vacuum # None THEN vacuum
    ELSE gas

\* archive.quenching after lines 241-275: each of anti, vacuum and gas is
\* None when its test fails; a later assignment overwrites an earlier one.
Quenching(anti, vacuum, gas) ==
    IF IsRaise(FirstRaise(<<anti, vacuum, gas>>))
    THEN FirstRaise(<<anti, vacuum, gas>>)
    ELSE IF gas # None THEN gas
    ELSE IF vacuum # None THEN vacuum
    ELSE anti

\* The quenching of lines 241-275.  ('Nozzle size [mm2]' stands for the
\* column written with a superscript 2.)
SpinCoatingQuenching(row) ==
    Quenching(
        IF Truthy(get_value(row, "Anti solvent name", None, FALSE))
        THEN AntiSolventQuenching(
                 get_value(row, "Anti solvent volume [ml]", None, TRUE),
                 get_value(row, "Anti solvent dropping time [s]", None, TRUE),
                 get_value(row, "Anti solvent dropping heigt [mm]", None, TRUE),
                 get_value(row, "Anti solvent dropping speed [ul/s]", None,
                           TRUE),
                 get_value(row, "Anti solvent name", None, FALSE))
        ELSE None,
        IF Truthy(get_value(row, "Vacuum quenching duration [s]", None, FALSE))
        THEN VacuumQuenching(
                 get_value(row, "Vacuum quenching start time [s]", None, TRUE),
                 get_value(row, "Vacuum quenching duration [s]", None, TRUE),
                 get_value(row, "Vacuum quenching pressure [bar]", None, TRUE))
        ELSE None,
        IF Truthy(get_value(row, "Gas", None, FALSE))
        THEN GasQuenchingWithNozzle(
                 <<get_value(row, "Gas quenching start time [s]", None, TRUE),
                   get_value(row, "Gas quenching flow rate [ml/s]", None, TRUE),
                   get_value(row, "Gas quenching height [mm]", None, TRUE),
                   get_value(row, "Gas quenching duration [s]", None, TRUE),
                   get_value(row, "Gas quenching pressure [bar]", None, TRUE),
                   get_value(row, "Gas quenching velocity [m/s]", None, TRUE)>>,
                 get_value(row, "Nozzle shape", None, FALSE),
                 get_value(row, "Nozzle size [mm2]", None, FALSE),
                 get_value(row, "Gas", None, FALSE))
        ELSE None)

\* The record with its quenching assigned, or the exception raised while
\* the record or the quenching was built.
WithQuenching(archive, quenching) ==
    IF IsRaise(archive) THEN archive
    ELSE IF IsRaise(quenching) THEN quenching
    ELSE [archive EXCEPT !.quenching = quenching]

\* peroTF_SpinCoating(...) of lines 199-240 from the cells it reads, or
\* the first exception raised while they are read.
SpinCoating(i, lab_ids, row, upload, material, details, volume, temperature, time) ==
    IF IsRaise(FirstRaise(<<details, volume, temperature, time>>))
    THEN FirstRaise(<<details, volume, temperature, time>>)
    ELSE [t |-> "ok",
          kind |-> "peroTF_SpinCoating",
          name |-> Str(TxtSpinCoating \o material.s),
          positon_in_experimental_plan |-> i,
          samples |-> SampleReferences(lab_ids, upload),
          layer |-> <<LayerProperties(row)>>,
          solution |->
              <<[solution_details |-> details,
                 solution_volume |-> convert_quantity(volume, Frac(1, 1000))]>>,
          annealing |->
              [temperature |-> temperature,
               time |-> convert_quantity(time, Num(60)),
               atmosphere |->
                   get_value(row, "Annealing athmosphere", None, FALSE)],
          quenching |-> None]

\* (name, archive), or the exception the mapper raised.
Named(name, archive) == IF IsRaise(archive) THEN archive ELSE Ok(name, archive)

ProcessName(i, j, key, material) ==
    Str(Format(i) \o <<"_">> \o Format(j) \o key \o material)

map_spin_coating(i, j, lab_ids, row, upload) ==
    Named(ProcessName(i, j, KeySpinCoating,
                      get_value(row, "Material name", EmptyStr, FALSE).s),
          WithQuenching(
              SpinCoating(i, lab_ids, row, upload,
                          get_value(row, "Material name", EmptyStr, FALSE),
                          map_solutions(row),
                          get_value(row, "Solution volume [um]", None, TRUE),
                          get_value(row, "Annealing temperature [C]", None,
                                    TRUE),
                          get_value(row, "Annealing time [min]", None, TRUE)),
              SpinCoatingQuenching(row)))

\* The fields every process record has (name, plan position, samples).
ProcessRecord(kind, name, i, lab_ids, upload) ==
    [kind |-> kind,
     name |-> name,
     positon_in_experimental_plan |-> i,
     samples |-> SampleReferences(lab_ids, upload)]

map_cleaning(i, j, lab_ids, row, upload) ==
    Ok(ProcessName(i, j, KeyCleaning, <<>>),
       ProcessRecord("peroTF_Cleaning", Str(TxtCleaning), i, lab_ids, upload))

map_generic(i, j, lab_ids, row, upload) ==
    Ok(ProcessName(i, j, KeyGeneric, <<>>),
       ProcessRecord("peroTF_Process",
                     get_value(row, "Name", EmptyStr, FALSE), i, lab_ids, upload))

\* get_value(data, 'Organic', '', False).lower().startswith(c) for c in cs
OrganicStartsWith(row, cs) ==
    \E c \in cs :
        StartsWith(Lower(get_value(row, "Organic", EmptyStr, FALSE).s), <<c>>)

map_evaporation(i, j, lab_ids, row, upload) ==
    LET material == get_value(row, "Material name", EmptyStr, FALSE)
        inorganic == OrganicStartsWith(row, {"n", "0"})
        organic == OrganicStartsWith(row, {"y", "1"})
        temperature == IF organic
                       THEN get_value(row, "Temperature [C]", None, TRUE)
                       ELSE None
        \* evaporation after lines 463-479
        evaporation == IF organic THEN "OrganicEvaporation"
                       ELSE IF inorganic THEN "InorganicEvaporation"
                       ELSE "None"
        thickness == get_value(row, "Thickness [nm]", None, TRUE)
        rate == get_value(row, "Rate [angstrom/s]", None, TRUE)
        filled == [kind |-> evaporation,
                   temparature |-> IF Truthy(temperature)
                                   THEN <<temperature, temperature>>
                                   ELSE <<>>,
                   thickness |-> thickness,
                   start_rate |-> rate,
                   chemical_2 |->
                       [name |-> get_value(row, "Material name", None, FALSE)]]
    IN  IF IsRaise(temperature) THEN temperature
        ELSE IF IsRaise(thickness) THEN thickness
        ELSE IF evaporation = "None" THEN Raise("AttributeError")
        ELSE IF IsRaise(rate) THEN rate
        ELSE Ok(ProcessName(i, j, KeyEvaporation, material.s),
                [kind |-> "peroTF_Evaporation",
                 name |-> Str(TxtEvaporation \o material.s),
                 positon_in_experimental_plan |-> i,
                 samples |-> SampleReferences(lab_ids, upload),
                 layer |-> <<LayerProperties(row)>>,
                 organic_evaporation |->
                     IF organic THEN <<filled>> ELSE <<>>,
                 inorganic_evaporation |->
                     IF inorganic THEN <<filled>> ELSE <<>>])

map_inkjet_printing(i, j, lab_ids, row, upload) ==
    LET material == get_value(row, "Material name", EmptyStr, FALSE)
    IN  Ok(ProcessName(i, j, KeyInkjetPrinting, material.s),
           ProcessRecord("peroTF_InkjetPrinting",
                         Str(TxtInkjetPrinting \o material.s), i, lab_ids, upload))

map_dip_coating(i, j, lab_ids, row, upload) ==
    LET material == get_value(row, "Material name", EmptyStr, FALSE)
    IN  Ok(ProcessName(i, j, KeyDipCoating, material.s),
           ProcessRecord("peroTF_DipCoating",
                         Str(TxtDipCoating \o material.s), i, lab_ids, upload))

map_sputtering(i, j, lab_ids, row, upload) ==
    LET material == get_value(row, "Material name", EmptyStr, FALSE)
    IN  Ok(ProcessName(i, j, KeySputtering, material.s),
           ProcessRecord("peroTF_Sputtering",
                         Str(TxtSputtering \o material.s), i, lab_ids, upload))

map_atomic_layer_deposition(i, j, lab_ids, row, upload) ==
    LET material == get_value(row, "Material name", EmptyStr, FALSE)
    IN  Ok(ProcessName(i, j, KeyALD, material.s),
           ProcessRecord("peroTF_ALD",
                         Str(TxtALD \o material.s), i, lab_ids, upload))

---------------------------------------------------------------------------
(* The tables parse is run on *)

MaxRows == 2

IdValues == {NaN, Str(<<"A", "_", "b", "_", "1">>), Str(<<"B", "_", "2">>)}

SubstrateRow(dimension, area, material, layer) ==
    [c \in substrates_col |->
        CASE c = "Sample dimension" -> dimension
          [] c = "Sample area [cm^2]" -> area
          [] c = "Substrate material" -> material
          [] c = "Substrate conductive layer" -> layer]

NoSubstrate == SubstrateRow(NaN, NaN, NaN, NaN)

FullSubstrate == SubstrateRow(Str(<<"2", "5">>), Num(1), Str(<<"g", "l", "a", "s", "s">>), Str(<<"I", "T", "O">>))

AreaOnlySubstrate == SubstrateRow(NaN, Num(2), NaN, NaN)

SubstrateValues == {NoSubstrate, FullSubstrate, AreaOnlySubstrate}

\* The 'Experiment Info' part of a row.
InfoRow(id, sub) ==
    [c \in {"Nomad ID"} \cup substrates_col |->
        IF c = "Nomad ID" THEN id ELSE sub[c]]

\* A process group's part of a row.
ProcessRow(material, organic) ==
    [c \in {"Material name", "Organic"} |->
        IF c = "Material name" THEN material ELSE organic]

ProcessValues ==
    {ProcessRow(NaN, NaN), ProcessRow(Str(<<"C", "6", "0">>), Str(<<"Y", "e", "s">>)),
     ProcessRow(Str(<<"C", "6", "0">>), Str(<<"n", "o">>)), ProcessRow(Str(<<"C", "6", "0">>), NaN)}

Keywords ==
    [Cleaning |-> <<"Cleaning">>,
     Generic |-> <<"Generic", "Process">>,
     Evaporation |-> <<"Evaporation">>,
     SpinCoating |-> <<"Spin", "Coating">>,
     InkjetPrinting |-> <<"Inkjet", "Printing">>,
     DipCoating |-> <<"Dip", "Coating">>,
     Sputtering |-> <<"Sputtering">>,
     ALD |-> <<"ALD">>]

SlotDieCoating == <<"Slot", "Die", "Coating">>

ProcessHeaders == {Keywords[f] : f \in DOMAIN Keywords} \cup {SlotDieCoating}

RowSeqs(S, least) == UNION {[1..n -> S] : n \in least..MaxRows}

\* Tables with no process group: every Nomad ID and substrate.
InfoTables ==
    {[headers |-> <<ExperimentInfo>>, rows |-> rs] :
        rs \in RowSeqs({<<InfoRow(id, sub)>> :
                           id \in IdValues, sub \in SubstrateValues}, 0)}

\* The Nomad IDs of the rows beside a process group: a missing id beside
\* a Cleaning and an Evaporation group only.
IdsBeside(col) ==
    IF col \in {Keywords.Cleaning, Keywords.Evaporation} THEN IdValues
    ELSE IdValues \ {NaN}

\* Tables with one process group, of every kind.
ProcessTables ==
    UNION {{[headers |-> <<ExperimentInfo, col>>, rows |-> rs] :
               rs \in RowSeqs({<<InfoRow(id, FullSubstrate), p>> :
                                  id \in IdsBeside(col),
                                  p \in ProcessValues}, 1)} :
              col \in ProcessHeaders}

\* Tables with two process groups.
TwoGroupTables ==
    {[headers |-> <<ExperimentInfo>> \o cols, rows |-> rs] :
        cols \in {<<Keywords.Cleaning, Keywords.SpinCoating>>,
                  <<Keywords.Evaporation, Keywords.Generic>>},
        rs \in RowSeqs({<<InfoRow(id, FullSubstrate), p, q>> :
                           id \in IdValues \ {NaN},
                           p \in {ProcessRow(NaN, NaN),
                                  ProcessRow(Str(<<"C", "6", "0">>), Str(<<"Y", "e", "s">>))},
                           q \in {ProcessRow(NaN, NaN),
                                  ProcessRow(Str(<<"C", "6", "0">>), Str(<<"Y", "e", "s">>))}}, 1)}

\* Tables with a Cleaning group in which a row may have nothing under
\* 'Experiment Info'.
EmptyInfoTables ==
    {[headers |-> <<ExperimentInfo, Keywords.Cleaning>>, rows |-> rs] :
        rs \in RowSeqs({<<info, p>> :
                           info \in {InfoRow(NaN, NoSubstrate),
                                     InfoRow(Str(<<"A", "_", "b", "_", "1">>),
                                             FullSubstrate)},
                           p \in {ProcessRow(NaN, NaN),
                                  ProcessRow(Str(<<"C", "6", "0">>), NaN)}}, 1)}

Tables == InfoTables \cup ProcessTables \cup TwoGroupTables \cup EmptyInfoTables

---------------------------------------------------------------------------
(* PeroTFExperimentParser.parse (lines 706-808) *)

Init ==
    /\ table \in Tables
    /\ upload_id = "upload"
    /\ pc = "start"
    /\ g = 1
    /\ k = 1
    /\ sample_ids = <<>>
    /\ substrates = <<>>
    /\ archives = <<>>
    /\ calls = <<>>
    /\ created = <<>>
    /\ refs = <<>>
    /\ data = None
    /\ error = "none"

Info == HeaderIndex(table, ExperimentInfo)

\* parse ends with exception e; nothing else changes.
Fails(e) ==
    /\ pc' = "error"
    /\ error' = e

\* The groups the loop of line 751 does not skip, after position h.
ProcessGroupsAfter(h) ==
    {h2 \in (h + 1)..Len(table.headers) : table.headers[h2] # ExperimentInfo}

Min(S) == CHOOSE x \in S : \A y \in S : x <= y

\* Where parse goes once the loop over the groups is at its end.
AfterProcesses == IF substrates = <<>> THEN "archive_records"
                  ELSE "archive_substrates"

\* A variant of BatchId: the text before the first underscore.
BatchIdFirstSegment(first) == Str(Split(first.s, "_")[1])

\* Line 712: '_'.join(sample_ids[0].split('_')[:-1])
BatchId(first) == Str(Join(DropLast(Split(first.s, "_")), "_"))

\* Lines 707-713: the sample ids, the batch id and the batch record.
Start ==
    /\ pc = "start"
    /\ LET ids == DropNa(table, Info, "Nomad ID")
       IN  IF ids = <<>>
           THEN Fails("IndexError") /\ UNCHANGED <<sample_ids, archives>>
           ELSE IF ~IsStr(ids[1])
           THEN Fails("AttributeError") /\ UNCHANGED <<sample_ids, archives>>
           ELSE /\ sample_ids' = ids
                /\ archives' =
                     <<map_batch(ids, BatchId(ids[1]), upload_id)>>
                /\ pc' = "substrates"
                /\ UNCHANGED error
    /\ UNCHANGED <<table, upload_id, g, k, substrates, calls, created, refs, data>>

\* A variant of SubstrateStep: the substrate record is archived in the
\* loop that builds it.
SubstrateStepArchiving ==
    /\ pc = "substrates"
    /\ LET kept == drop_duplicates(table, Info, substrates_col)
           r == kept[k]
           sub == RowOf(table, Info, substrates_col, r)
           record == map_substrate(sub)
           name == Str(Format(Label(r)) \o TxtSubstrateSuffix)
           more == k < Len(kept)
       IN  IF ~AllNa(sub) /\ IsRaise(record)
           THEN Fails(record.exc) /\ UNCHANGED <<substrates, k, created>>
           ELSE /\ substrates' =
                     IF AllNa(sub) THEN substrates
                     ELSE Append(substrates,
                                 [name |-> name, sub |-> sub,
                                  archive |-> record])
                /\ created' =
                     IF AllNa(sub) THEN created
                     ELSE Append(created,
                                 [file_name |-> ArchiveFileName(name),
                                  archive |-> record])
                /\ k' = IF more THEN k + 1 ELSE 1
                /\ pc' = IF more THEN "substrates" ELSE "samples"
                /\ UNCHANGED error
    /\ UNCHANGED <<table, upload_id, g, sample_ids, archives, calls, refs,
                   data>>

\* Lines 721-726: one pass of the loop over the distinct substrate rows.
SubstrateStep ==
    /\ pc = "substrates"
    /\ LET kept == drop_duplicates(table, Info, substrates_col)
           r == kept[k]
           sub == RowOf(table, Info, substrates_col, r)
           record == map_substrate(sub)
           more == k < Len(kept)
       IN  IF ~AllNa(sub) /\ IsRaise(record)
           THEN Fails(record.exc) /\ UNCHANGED <<substrates, k>>
           ELSE /\ substrates' =
                     IF AllNa(sub) THEN substrates
                     ELSE Append(substrates,
                                 [name |-> Str(Format(Label(r))
                                               \o TxtSubstrateSuffix),
                                  sub |-> sub,
                                  archive |-> record])
                /\ k' = IF more THEN k + 1 ELSE 1
                /\ pc' = IF more THEN "substrates" ELSE "samples"
                /\ UNCHANGED error
    /\ UNCHANGED <<table, upload_id, g, sample_ids, archives, calls, created,
                   refs, data>>

\* Lines 728-731: the name of the first substrate whose row equals d.
find_substrate(subs, d) ==
    IF \E n \in 1..Len(subs) : SeriesEquals(d, subs[n].sub)
    THEN subs[Min({n \in 1..Len(subs) : SeriesEquals(d, subs[n].sub)})].name
    ELSE None

\* Lines 733-749: one pass of the loop over the rows of 'Experiment Info'.
SampleStep ==
    /\ pc = "samples"
    /\ LET row == RowOf(table, Info, Columns(table, Info), k)
           found == find_substrate(substrates, Select(row, substrates_col))
           more == k < NRows(table)
           groups == ProcessGroupsAfter(0)
       IN  IF ~AllNa(row) /\ ~IsStr(found)
           THEN Fails("TypeError") /\ UNCHANGED <<archives, k, g>>
           ELSE /\ archives' =
                     IF AllNa(row) THEN archives
                     ELSE Append(archives,
                                 map_basic_sample(row, found.s \o ArchiveSuffix,
                                                  upload_id))
                /\ k' = IF more THEN k + 1 ELSE 1
                /\ g' = IF more \/ groups = {} THEN g ELSE Min(groups)
                /\ pc' = IF more THEN "samples"
                         ELSE IF groups = {} THEN AfterProcesses
                         ELSE "processes"
                /\ UNCHANGED error
    /\ UNCHANGED <<table, upload_id, sample_ids, substrates, calls, created,
                   refs, data>>

\* A variant of LabIdsUpTo: x[col].equals(row), without astype('object').
RECURSIVE LabIdsNoAstype(_, _, _, _)
LabIdsNoAstype(df, h, row, n) ==
    IF n = 0 THEN <<>>
    ELSE LabIdsNoAstype(df, h, row, n - 1)
         \o (IF SeriesEquals(
                    RowAcross(df, HeaderIndex(df, ExperimentInfo), h, n), row)
             THEN <<df.rows[n][HeaderIndex(df, ExperimentInfo)]["Nomad ID"]>>
             ELSE <<>>)

\* Lines 757-761: the Nomad IDs of the rows of df[['Experiment Info', col]]
\* whose part in group h equals row, among the first n rows.
RECURSIVE LabIdsUpTo(_, _, _, _)
LabIdsUpTo(df, h, row, n) ==
    IF n = 0 THEN <<>>
    ELSE LabIdsUpTo(df, h, row, n - 1)
         \o (IF SeriesEquals(
                    AsObject(RowAcross(df, HeaderIndex(df, ExperimentInfo), h, n)),
                    AsObject(row))
             THEN <<df.rows[n][HeaderIndex(df, ExperimentInfo)]["Nomad ID"]>>
             ELSE <<>>)

LabIds(df, h, row) == LabIdsUpTo(df, h, row, NRows(df))

\* Lines 762-795: the mappers one pass calls, in the order of the calls.
MappersFor(col, row) ==
    (IF Contains(col, Keywords.Cleaning) THEN <<"Cleaning">> ELSE <<>>)
    \o (IF Contains(col, Keywords.Generic) THEN <<"Generic">> ELSE <<>>)
    \o (IF isna(RowGet(row, "Material name")) THEN <<>>
        ELSE (IF Contains(col, Keywords.Evaporation)
              THEN <<"Evaporation">> ELSE <<>>)
          \o (IF Contains(col, Keywords.SpinCoating)
              THEN <<"SpinCoating">> ELSE <<>>)
          \o (IF Contains(col, Keywords.InkjetPrinting)
              THEN <<"InkjetPrinting">> ELSE <<>>)
          \o (IF Contains(col, Keywords.DipCoating)
              THEN <<"DipCoating">> ELSE <<>>)
          \o (IF Contains(col, Keywords.Sputtering)
              THEN <<"Sputtering">> ELSE <<>>)
          \o (IF Contains(col, Keywords.ALD) THEN <<"ALD">> ELSE <<>>))

CallMapper(mapper, i, j, lab_ids, row, upload) ==
    CASE mapper = "Cleaning" -> map_cleaning(i, j, lab_ids, row, upload)
      [] mapper = "Generic" -> map_generic(i, j, lab_ids, row, upload)
      [] mapper = "Evaporation" -> map_evaporation(i, j, lab_ids, row, upload)
      [] mapper = "SpinCoating" -> map_spin_coating(i, j, lab_ids, row, upload)
      [] mapper = "InkjetPrinting" ->
            map_inkjet_printing(i, j, lab_ids, row, upload)
      [] mapper = "DipCoating" -> map_dip_coating(i, j, lab_ids, row, upload)
      [] mapper = "Sputtering" -> map_sputtering(i, j, lab_ids, row, upload)
      [] mapper = "ALD" ->
            map_atomic_layer_deposition(i, j, lab_ids, row, upload)

\* The calls made before an exception ends the pass: all of them when
\* none raises, else those up to the first that raises.
CallsMade(results) ==
    IF \E n \in 1..Len(results) : IsRaise(results[n])
    THEN Min({n \in 1..Len(results) : IsRaise(results[n])})
    ELSE Len(results)

\* Lines 755-795: one pass of the loop over the distinct rows of group g.
ProcessStep ==
    /\ pc = "processes"
    /\ LET col == table.headers[g]
           i == Num(g - 1)
           kept == drop_duplicates(table, g, Columns(table, g))
           r == kept[k]
           j == Label(r)
           row == RowOf(table, g, Columns(table, g), r)
           lab_ids == LabIds(table, g, row)
           mappers == MappersFor(col, row)
           results == [n \in 1..Len(mappers) |->
                          CallMapper(mappers[n], i, j, lab_ids, row, upload_id)]
           made == CallsMade(results)
           raised == FirstRaise(results)
           more == k < Len(kept)
           groups == ProcessGroupsAfter(g)
       IN  /\ calls' = calls \o [n \in 1..made |->
                                   [mapper |-> mappers[n], i |-> i, j |-> j,
                                    group |-> g, row |-> r,
                                    lab_ids |-> lab_ids]]
           /\ IF IsRaise(raised)
              THEN /\ archives' = archives \o SubSeq(results, 1, made - 1)
                   /\ Fails(raised.exc)
                   /\ UNCHANGED <<g, k>>
              ELSE /\ archives' = archives \o results
                   /\ k' = IF more THEN k + 1 ELSE 1
                   /\ g' = IF more \/ groups = {} THEN g ELSE Min(groups)
                   /\ pc' = IF more \/ groups # {} THEN "processes"
                            ELSE AfterProcesses
                   /\ UNCHANGED error
    /\ UNCHANGED <<table, upload_id, sample_ids, substrates, created, refs, data>>

\* Lines 798-801: one pass of the loop over substrates.
ArchiveSubstrate ==
    /\ pc = "archive_substrates"
    /\ LET subs == substrates[k]
           file_name == ArchiveFileName(subs.name)
       IN  /\ created' = Append(created, [file_name |-> file_name,
                                          archive |-> subs.archive])
           /\ refs' = Append(refs, get_reference(upload_id, file_name))
    /\ k' = IF k < Len(substrates) THEN k + 1 ELSE 1
    /\ pc' = IF k < Len(substrates) THEN "archive_substrates"
             ELSE "archive_records"
    /\ UNCHANGED <<table, upload_id, g, sample_ids, substrates, archives, calls,
                   data, error>>

\* A variant of ArchiveRecord: the file is named after the record's own
\* name (a[1].name), not after the name parse gave it (a[0]).
ArchiveRecordByOwnName ==
    /\ pc = "archive_records"
    /\ LET a == archives[k]
           file_name == ArchiveFileName(a.archive.name)
       IN  /\ created' = Append(created, [file_name |-> file_name,
                                          archive |-> a.archive])
           /\ refs' = Append(refs, get_reference(upload_id, file_name))
    /\ k' = IF k < Len(archives) THEN k + 1 ELSE 1
    /\ pc' = IF k < Len(archives) THEN "archive_records" ELSE "set_data"
    /\ UNCHANGED <<table, upload_id, g, sample_ids, substrates, archives, calls,
                   data, error>>

\* Lines 803-806: one pass of the loop over archives.
ArchiveRecord ==
    /\ pc = "archive_records"
    /\ LET a == archives[k]
           file_name == ArchiveFileName(a.name)
       IN  /\ created' = Append(created, [file_name |-> file_name,
                                          archive |-> a.archive])
           /\ refs' = Append(refs, get_reference(upload_id, file_name))
    /\ k' = IF k < Len(archives) THEN k + 1 ELSE 1
    /\ pc' = IF k < Len(archives) THEN "archive_records" ELSE "set_data"
    /\ UNCHANGED <<table, upload_id, g, sample_ids, substrates, archives, calls,
                   data, error>>

\* Line 808: archive.data = RawHySprintExperiment(processed_archive=refs)
SetData ==
    /\ pc = "set_data"
    /\ data' = [t |-> "RawHySprintExperiment", processed_archive |-> refs]
    /\ pc' = "done"
    /\ UNCHANGED <<table, upload_id, g, k, sample_ids, substrates, archives,
                   calls, created, refs, error>>

Next ==
    \/ Start
    \/ SubstrateStep
    \/ SampleStep
    \/ ProcessStep
    \/ ArchiveSubstrate
    \/ ArchiveRecord
    \/ SetData

Spec == Init /\ [][Next]_vars

---------------------------------------------------------------------------
(* The mappers and convert_quantity called on single rows and values.      *)
(* Here table holds the call and its arguments, archives the value a       *)
(* mapper returned and data the value convert_quantity returned.           *)

\* A row without dtype changes: the cells given, as one Series.
Series(cells) == [dtype |-> "object", v |-> cells]

SpinCoatingRows ==
    {Series([c \in {"Material name", "Annealing time [min]",
                    "Solution volume [um]", "Solvent 1 name",
                    "Solvent 1 volume [uL]", "Solute 1 type",
                    "Solute 1 Concentration [mM]"} |->
                CASE c = "Material name" -> Str(<<"C", "6", "0">>)
                  [] c = "Annealing time [min]" -> time
                  [] c = "Solution volume [um]" -> volume
                  [] c = "Solvent 1 name" -> solvent
                  [] c = "Solvent 1 volume [uL]" -> solvent_volume
                  [] c = "Solute 1 type" -> solute
                  [] c = "Solute 1 Concentration [mM]" -> conc]) :
        time \in {NaN, Num(10), Str(<<"x">>)},
        volume \in {NaN, Num(100)},
        solvent \in {NaN, Str(<<"D", "M", "F">>)},
        solvent_volume \in {NaN, Num(0), Num(500)},
        solute \in {NaN, Str(<<"P", "b", "I", "2">>)},
        conc \in {NaN, Num(1500)}}
    \cup {Series([c \in {"Material name"} |-> Str(<<"C", "6", "0">>)])}

\* Spin coating rows with the three columns that select a quenching.
QuenchingRows ==
    {Series([c \in {"Material name", "Anti solvent name",
                    "Anti solvent volume [ml]",
                    "Vacuum quenching duration [s]", "Gas"} |->
                CASE c = "Material name" -> Str(<<"C", "6", "0">>)
                  [] c = "Anti solvent name" -> anti
                  [] c = "Anti solvent volume [ml]" -> volume
                  [] c = "Vacuum quenching duration [s]" -> duration
                  [] c = "Gas" -> gas]) :
        anti \in {NaN, Str(<<"C", "B">>)},
        volume \in {NaN, Num(1)},
        duration \in {NaN, Num(0), Num(30)},
        gas \in {NaN, Str(<<"N", "2">>), Str(<<" ">>)}}

OrganicValues ==
    {NaN, Str(<<"Y", "e", "s">>), Str(<<"n", "o">>), Str(<<"1">>), Str(<<"0">>), Num(1), Num(0),
     Str(<<"m", "a", "y", "b", "e">>)}

EvaporationRows ==
    {Series([c \in {"Material name", "Organic", "Thickness [nm]"} |->
                CASE c = "Material name" -> material
                  [] c = "Organic" -> organic
                  [] c = "Thickness [nm]" -> thickness]) :
        material \in {NaN, Str(<<"C", "6", "0">>)},
        organic \in OrganicValues,
        thickness \in {NaN, Num(20)}}
    \cup {Series([c \in {"Material name", "Thickness [nm]"} |->
                     IF c = "Material name" THEN Str(<<"C", "6", "0">>) ELSE thickness]) :
             thickness \in {NaN, Num(20)}}

MapperCalls ==
    {[call |-> "SpinCoating", row |-> row] :
        row \in SpinCoatingRows \cup QuenchingRows}
    \cup {[call |-> "Evaporation", row |-> row] : row \in EvaporationRows}

ConvertCalls ==
    {[call |-> "convert_quantity", value |-> value, factor |-> factor] :
        value \in {None, NaN, Num(0), Num(3), Frac(5, 2), Str(<<"1", "2">>),
                   Str(<<"1", ".", "5">>), Str(<<"a", "b", "c">>), EmptyStr},
        factor \in {Num(60), Frac(1, 1000), Frac(1, 60), Num(10000)}}

\* Calls get_value(row, 'Notes', default, number) on rows with and without
\* the column.
GetValueCalls ==
    {[call |-> "get_value", row |-> row, key |-> "Notes",
      default |-> default, number |-> number] :
        row \in {Series([c \in {"Material name", "Notes"} |->
                            IF c = "Notes" THEN cell ELSE Str(<<"C", "6", "0">>)]) :
                    cell \in {NaN, None, Num(3), Frac(5, 2), Str(<<"1", "2">>),
                              Str(<<" ", "1", ".", "5">>), Str(<<" ", "a", "b", " ">>), Str(<<"a", "b", "c">>),
                              Str(<<" ">>), EmptyStr}}
                \cup {Series([c \in {"Material name"} |-> Str(<<"C", "6", "0">>)])},
        default \in {None, EmptyStr, Num(0)},
        number \in BOOLEAN}

\* The sample ids the mapper is handed in these calls.
CallLabIds == <<Str(<<"A", "_", "b", "_", "1">>), Str(<<"B", "_", "2">>)>>

MapInit ==
    /\ table \in MapperCalls \cup ConvertCalls \cup GetValueCalls
    /\ upload_id = "upload"
    /\ pc = "call"
    /\ g = 1
    /\ k = 1
    /\ sample_ids = <<>>
    /\ substrates = <<>>
    /\ archives = <<>>
    /\ calls = <<>>
    /\ created = <<>>
    /\ refs = <<>>
    /\ data = None
    /\ error = "none"

\* One call map_...(1, 0, lab_ids, row, upload_id).
MapperCall ==
    /\ pc = "call"
    /\ table.call \in {"SpinCoating", "Evaporation"}
    /\ archives' = <<CallMapper(table.call, Num(1), Num(0), CallLabIds,
                                table.row, upload_id)>>
    /\ pc' = "returned"
    /\ UNCHANGED <<table, upload_id, g, k, sample_ids, substrates, calls,
                   created, refs, data, error>>

\* One call convert_quantity(value, factor).
ConvertCall ==
    /\ pc = "call"
    /\ table.call = "convert_quantity"
    /\ data' = convert_quantity(table.value, table.factor)
    /\ pc' = "returned"
    /\ UNCHANGED <<table, upload_id, g, k, sample_ids, substrates, archives,
                   calls, created, refs, error>>

\* One call get_value(row, key, default, number); data holds what it
\* returned or raised.
GetValueCall ==
    /\ pc = "call"
    /\ table.call = "get_value"
    /\ data' = get_value(table.row, table.key, table.default, table.number)
    /\ pc' = "returned"
    /\ UNCHANGED <<table, upload_id, g, k, sample_ids, substrates, archives,
                   calls, created, refs, error>>

MapNext == MapperCall \/ ConvertCall \/ GetValueCall

SpecMap == MapInit /\ [][MapNext]_vars

---------------------------------------------------------------------------
(* PeroTFExperimentParser.is_mainfile (lines 686-704), then parse on the   *)
(* files it accepts.  Here table is the file: its table, whether the       *)
(* parent matcher accepts it (matches) and whether read_excel reads it     *)
(* (readable).                                                             *)

File(df, matches, readable) ==
    [headers |-> df.headers, rows |-> df.rows,
     matches |-> matches, readable |-> readable]

\* A table without 'Experiment Info', and one whose 'Experiment Info' has
\* no 'Nomad ID' column.
HeaderlessTables ==
    {[headers |-> <<Keywords.Cleaning>>, rows |-> <<<<ProcessRow(NaN, NaN)>>>>],
     [headers |-> <<ExperimentInfo>>, rows |-> <<<<FullSubstrate>>>>]}

Files ==
    {File(df, TRUE, TRUE) :
        df \in InfoTables \cup TwoGroupTables \cup HeaderlessTables}
    \cup {File(df, matches, readable) :
             df \in HeaderlessTables
                    \cup {[headers |-> <<ExperimentInfo>>,
                           rows |-> <<<<InfoRow(id, FullSubstrate)>>>>] :
                             id \in IdValues},
             matches \in BOOLEAN, readable \in BOOLEAN}

\* Lines 700-701: the list of Nomad IDs, or the exception raised by
\* read_excel or by a missing column.  (Every table without rows of the
\* model has the column.)
ReadNomadIds(file) ==
    IF ~file.readable THEN Raise("ValueError")
    ELSE IF \A h \in 1..Len(file.headers) : file.headers[h] # ExperimentInfo
    THEN Raise("KeyError")
    ELSE IF \E r \in 1..NRows(file) :
                "Nomad ID" \notin DOMAIN file.rows[r][HeaderIndex(file,
                                                                  ExperimentInfo)]
    THEN Raise("KeyError")
    ELSE [t |-> "ok",
          ids |-> DropNa(file, HeaderIndex(file, ExperimentInfo), "Nomad ID")]

\* Lines 694-704: the value is_mainfile returns.
is_mainfile(file) ==
    IF ~file.matches THEN FALSE
    ELSE IF IsRaise(ReadNomadIds(file)) THEN FALSE
    ELSE TRUE

MainInit ==
    /\ table \in Files
    /\ upload_id = "upload"
    /\ pc = "is_mainfile"
    /\ g = 1
    /\ k = 1
    /\ sample_ids = <<>>
    /\ substrates = <<>>
    /\ archives = <<>>
    /\ calls = <<>>
    /\ created = <<>>
    /\ refs = <<>>
    /\ data = None
    /\ error = "none"

\* The call of is_mainfile; parse is run on the files it accepts.
IsMainfile ==
    /\ pc = "is_mainfile"
    /\ pc' = IF is_mainfile(table) THEN "start" ELSE "rejected"
    /\ UNCHANGED <<table, upload_id, g, k, sample_ids, substrates, archives,
                   calls, created, refs, data, error>>

MainNext == IsMainfile \/ Next

SpecMain == MainInit /\ [][MainNext]_vars

---------------------------------------------------------------------------
(* Properties of parse *)

NomadId(r) == table.rows[r][Info]["Nomad ID"]

\* The four substrate cells of row r.
Combination(r) == [c \in substrates_col |-> table.rows[r][Info][c]]

Combinations == {Combination(r) : r \in 1..NRows(table)}

\* Row r of 'Experiment Info' is not entirely empty.
NotEmpty(r) ==
    \E c \in DOMAIN table.rows[r][Info] : ~isna(table.rows[r][Info][c])

\* The n-th smallest member of a set of numbers.
Nth(S, n) == CHOOSE x \in S : Cardinality({y \in S : y < x}) = n - 1

AfterSamples ==
    {"processes", "archive_substrates", "archive_records", "set_data", "done"}

\* The rows with a Nomad ID.
WithId == {r \in 1..NRows(table) : ~isna(NomadId(r))}

\* The loop over the substrate rows has ended (an exception, if any, came
\* later).
SubstratesBuilt ==
    \/ pc \in {"samples"} \cup AfterSamples
    \/ pc = "error" /\ archives # <<>>

\* C1: a table with a Nomad ID gets through the substrate loop, and once
\* the loop has ended there is exactly one substrate record for each
\* combination of the four substrate cells that occurs in the table and
\* is not entirely missing, and none for any other.
C1_OneSubstratePerCombination ==
    /\ (WithId # {} /\ pc \notin {"start", "substrates"}) => SubstratesBuilt
    /\ SubstratesBuilt =>
        /\ {substrates[n].sub.v : n \in 1..Len(substrates)}
               = Combinations \ {NoSubstrate}
        /\ Len(substrates) = Cardinality(Combinations \ {NoSubstrate})
        /\ \A n \in 1..Len(substrates) :
               substrates[n].archive.kind = "peroTF_Substrate"

\* Two rows with the same substrate cells have received one record.
C1_Witness ==
    /\ pc = "samples"
    /\ NRows(table) = 2
    /\ Combination(1) = Combination(2)
    /\ Combination(1) # NoSubstrate
    /\ Len(substrates) = 1

\* The pass of the sample loop for row r has run (to its end, or to the
\* TypeError of line 747).
SampleRowHandled(r) ==
    \/ pc = "samples" /\ k > r
    \/ pc \in AfterSamples
    \/ pc = "error" /\ error = "TypeError" /\ k = r

\* The place in archives of the sample record of row r: after the batch
\* record and the sample records of the rows before r that are not empty.
SamplePlace(r) == 1 + Cardinality({q \in 1..r : NotEmpty(q)})

\* C2: every row of 'Experiment Info' that is not entirely empty has, once
\* its pass of the sample loop has run, a sample record whose substrate is
\* the reference to the substrate record of the row's combination of the
\* four substrate cells; also when all four are missing.
C2_SampleLinksSubstrate ==
    \A r \in 1..NRows(table) :
        (SampleRowHandled(r) /\ NotEmpty(r)) =>
            /\ Len(archives) >= SamplePlace(r)
            /\ archives[SamplePlace(r)].archive.kind = "peroTF_Sample"
            /\ archives[SamplePlace(r)].archive.lab_id = NomadId(r)
            /\ \E n \in 1..Len(substrates) :
                   /\ substrates[n].sub.v = Combination(r)
                   /\ archives[SamplePlace(r)].archive.substrate
                        = get_reference(upload_id,
                                        Format(substrates[n].name)
                                            \o ArchiveSuffix)

\* s is text t without its last underscore and what follows it (empty if
\* t has no underscore).
IsWithoutLastSegment(s, t) ==
    IF \A p \in 1..Len(t) : t[p] # "_" THEN s = <<>>
    ELSE \E p \in 1..Len(t) :
            /\ t[p] = "_"
            /\ \A q \in (p + 1)..Len(t) : t[q] # "_"
            /\ s = SubSeq(t, 1, p - 1)

Batches == {n \in 1..Len(archives) : archives[n].archive.kind = "peroTF_Batch"}

\* Lines 707-713 have run without an exception.
BatchBuilt ==
    \/ pc \in {"substrates", "samples"} \cup AfterSamples
    \/ pc = "error" /\ archives # <<>>

\* C4: a table with a Nomad ID gets a batch record, and exactly one; its
\* entities are the Nomad IDs that are not missing, in table order, each
\* with the reference to '<Nomad ID>.archive.json'; its name and lab_id
\* are the first of them without its last underscore-separated segment.
\* When parse is done the batch record has been archived once.
C4_OneBatch ==
    /\ (WithId # {} /\ pc # "start") => BatchBuilt
    /\ BatchBuilt =>
        /\ Batches = {1}
        /\ LET batch == archives[1].archive
           IN  /\ Len(batch.entities) = Cardinality(WithId)
               /\ \A n \in 1..Len(batch.entities) :
                      /\ batch.entities[n].lab_id = NomadId(Nth(WithId, n))
                      /\ batch.entities[n].reference
                           = get_reference(upload_id,
                                 Format(NomadId(Nth(WithId, n)))
                                     \o ArchiveSuffix)
               /\ batch.name = batch.lab_id
               /\ archives[1].name = batch.name
               /\ IsWithoutLastSegment(batch.name.s, NomadId(Nth(WithId, 1)).s)
    /\ pc = "done" =>
        Cardinality({n \in 1..Len(created) :
                        created[n].archive.kind = "peroTF_Batch"}) = 1

\* A batch named after the id of the second row, which has two
\* underscores, the first row having no id.
C4_Witness ==
    /\ pc = "done"
    /\ NRows(table) = 2
    /\ isna(NomadId(1))
    /\ Len(archives[1].archive.entities) = 1
    /\ archives[1].archive.name = Str(<<"A", "_", "b">>)

\* The cells of row r in group h.
Content(h, r) == table.rows[r][h]

\* The rows whose cells in group h are those of row r, missing cells in
\* the same places included.
Sharing(h, r) == {q \in 1..NRows(table) : Content(h, q) = Content(h, r)}

ProcessGroups == ProcessGroupsAfter(0)

\* The loop over the groups has ended without an exception.
AfterProcessLoop == {"archive_substrates", "archive_records", "set_data", "done"}

\* The pass of the loop of line 756 for row r of group h has run to its end.
PassDone(h, r) ==
    \/ pc \in AfterProcessLoop
    \/ /\ pc = "processes"
       /\ \/ g > h
          \/ g = h /\ drop_duplicates(table, g, Columns(table, g))[k] > r

\* C3: every process mapper is handed, for the distinct row it maps, the
\* Nomad IDs in table order of all rows whose cells in that group equal the
\* distinct row's; the record built carries references to exactly these;
\* and a Cleaning or Generic Process group hands every distinct content
\* to its mapper.
C3_SamplesShareProcess ==
    /\ \A n \in 1..Len(calls) :
           LET S == Sharing(calls[n].group, calls[n].row)
           IN  /\ Len(calls[n].lab_ids) = Cardinality(S)
               /\ \A m \in 1..Len(calls[n].lab_ids) :
                      calls[n].lab_ids[m] = NomadId(Nth(S, m))
               /\ calls[n].row = Nth(S, 1)
    /\ (pc \in {"processes"} \cup AfterProcessLoop) =>
           \A n \in 1..Len(calls) :
               LET a == archives[Len(archives) - Len(calls) + n].archive
               IN  /\ Len(a.samples) = Len(calls[n].lab_ids)
                   /\ \A m \in 1..Len(a.samples) :
                          a.samples[m].lab_id = calls[n].lab_ids[m]
    /\ \A h \in ProcessGroups : \A r \in 1..NRows(table) :
           (/\ PassDone(h, Nth(Sharing(h, r), 1))
            /\ table.headers[h] \in {Keywords.Cleaning, Keywords.Generic}) =>
               \E n \in 1..Len(calls) :
                   /\ calls[n].group = h
                   /\ calls[n].row = Nth(Sharing(h, r), 1)

\* Two samples, in table order, share a cleaning whose cells are all
\* missing.
C3_Witness ==
    /\ pc = "done"
    /\ \E n \in 1..Len(calls) :
           /\ calls[n].mapper = "Cleaning"
           /\ calls[n].lab_ids = <<Str(<<"B", "_", "2">>), Str(<<"A", "_", "b", "_", "1">>)>>
           /\ Content(calls[n].group, calls[n].row) = ProcessRow(NaN, NaN)

\* The ids placed in the samples lists of the calls of mapper m for group
\* h, among the first n calls.
RECURSIVE Placed(_, _, _)
Placed(h, m, n) ==
    IF n = 0 THEN 0
    ELSE Placed(h, m, n - 1)
         + (IF calls[n].group = h /\ calls[n].mapper = m
            THEN Len(calls[n].lab_ids) ELSE 0)

Mappers == {"Cleaning", "Generic", "Evaporation", "SpinCoating",
            "InkjetPrinting", "DipCoating", "Sputtering", "ALD"}

\* C8: within a group every table row equals exactly one of the rows
\* drop_duplicates keeps, so over the calls of one mapper for one group no
\* row is placed in two samples lists, and a Cleaning or Generic Process
\* group places every row once.
C8_DistinctRowsPartition ==
    /\ pc = "processes" =>
           LET kept == drop_duplicates(table, g, Columns(table, g))
           IN  \A r \in 1..NRows(table) :
                   Cardinality(
                       {n \in 1..Len(kept) :
                           SeriesEquals(
                               AsObject(RowAcross(table, Info, g, r)),
                               AsObject(RowOf(table, g, Columns(table, g),
                                              kept[n])))}) = 1
    /\ \A n \in 1..Len(calls) : \A m \in 1..Len(calls) :
           (/\ n # m
            /\ calls[n].group = calls[m].group
            /\ calls[n].mapper = calls[m].mapper) =>
               Sharing(calls[n].group, calls[n].row)
                   \cap Sharing(calls[m].group, calls[m].row) = {}
    /\ \A h \in ProcessGroups : \A m \in Mappers :
           /\ Placed(h, m, Len(calls)) <= NRows(table)
           /\ (/\ PassDone(h, NRows(table))
               /\ table.headers[h] = Keywords[m]
               /\ m \in {"Cleaning", "Generic"}) =>
                  Placed(h, m, Len(calls)) = NRows(table)

\* Two rows with the same cells in a group are placed in one samples list.
C8_Witness ==
    /\ pc = "done"
    /\ NRows(table) = 2
    /\ Len(calls) = 1
    /\ Len(calls[1].lab_ids) = 2
    /\ ~isna(Content(calls[1].group, 1)["Material name"])

\* The order of the kinds of record in processed_archive.
Rank(kind) ==
    CASE kind = "peroTF_Substrate" -> 0
      [] kind = "peroTF_Batch" -> 1
      [] kind = "peroTF_Sample" -> 2
      [] OTHER -> 3

\* C5: when parse is done every record it produced (the substrates, then
\* the batch, the samples and the processes) has been handed to
\* create_archive once, in that order, under '<name>.archive.json', the
\* samples in row order and the processes in group order, and
\* archive.data.processed_archive lists one reference per record in the
\* same order.
C5_ArchivedOnceInOrder ==
    pc = "done" =>
        /\ Len(created) = Len(substrates) + Len(archives)
        /\ \A n \in 1..Len(substrates) :
               created[n] = [file_name |-> Format(substrates[n].name)
                                             \o ArchiveSuffix,
                             archive |-> substrates[n].archive]
        /\ \A n \in 1..Len(archives) :
               created[Len(substrates) + n]
                   = [file_name |-> Format(archives[n].name) \o ArchiveSuffix,
                      archive |-> archives[n].archive]
        /\ data.t = "RawHySprintExperiment"
        /\ Len(data.processed_archive) = Len(created)
        /\ \A n \in 1..Len(created) :
               data.processed_archive[n]
                   = get_reference(upload_id, created[n].file_name)
        /\ \A m \in 1..Len(created) : \A n \in (m + 1)..Len(created) :
               /\ Rank(created[m].archive.kind) <= Rank(created[n].archive.kind)
               /\ Rank(created[m].archive.kind) = 3 =>
                      created[m].archive.positon_in_experimental_plan.n
                          <= created[n].archive.positon_in_experimental_plan.n
        /\ \A r \in 1..NRows(table) :
               NotEmpty(r) =>
                   /\ created[Len(substrates) + SamplePlace(r)].archive.kind
                          = "peroTF_Sample"
                   /\ created[Len(substrates) + SamplePlace(r)].archive.lab_id
                          = NomadId(r)

\* A finished parse of two rows with process records of two groups.
C5_Witness ==
    /\ pc = "done"
    /\ NRows(table) = 2
    /\ \E n \in 1..Len(calls) : \E m \in 1..Len(calls) :
           calls[n].group # calls[m].group

\* The lists of links of a record: a batch's entities, a process's samples.
Links(a) ==
    CASE a.kind = "peroTF_Batch" -> a.entities
      [] a.kind \in {"peroTF_Sample", "peroTF_Substrate"} -> <<>>
      [] OTHER -> a.samples

\* C6: every reference in processed_archive has the form
\* '../uploads/<upload_id>/archive/<hash(upload_id, file_name)>#data' for
\* the file name its record was archived under, and the reference a batch
\* or process record holds for a sample id, or a sample record holds for
\* its substrate, is the reference listed for the record archived under
\* that file name.
C6_ReferencesAgree ==
    pc = "done" =>
        /\ \A n \in 1..Len(created) :
               data.processed_archive[n]
                   = <<"../uploads/", upload_id, "/archive/",
                       hash(upload_id, created[n].file_name), "#data">>
        /\ \A m \in 1..Len(created) :
               \A l \in 1..Len(Links(created[m].archive)) :
                   \A n \in 1..Len(created) :
                       (/\ created[n].archive.kind = "peroTF_Sample"
                        /\ created[n].archive.lab_id
                               = Links(created[m].archive)[l].lab_id) =>
                           Links(created[m].archive)[l].reference
                               = data.processed_archive[n]
        /\ \A r \in 1..NRows(table) : \A n \in 1..Len(substrates) :
               (NotEmpty(r) /\ substrates[n].sub.v = Combination(r)) =>
                   created[Len(substrates) + SamplePlace(r)].archive.substrate
                       = data.processed_archive[n]

\* A finished parse whose process record links two samples.
C6_Witness ==
    /\ pc = "done"
    /\ Len(sample_ids) = 2
    /\ \E n \in 1..Len(calls) : Len(calls[n].lab_ids) = 2

---------------------------------------------------------------------------
(* Properties of the mappers *)

\* number = value * factor, both exact fractions.
IsProduct(number, value, factor) ==
    /\ IsNum(number)
    /\ number.n * value.d * factor.d = value.n * factor.n * number.d

\* The cell of a row under a column, NaN when the row has no such column.
Cell(row, c) == IF c \in DOMAIN row.v THEN row.v[c] ELSE NaN

\* The field a numeric column is stored in is the cell times the factor,
\* and None when the cell is missing.
Converted(field, cell, factor) ==
    IF isna(cell) THEN field = None ELSE IsProduct(field, cell, factor)

\* The numeric cells a spin coating row is read for are numbers or missing.
NumericCells(row) ==
    \A c \in {"Annealing time [min]", "Solution volume [um]",
              "Solvent 1 volume [uL]", "Solute 1 Concentration [mM]"} :
        isna(Cell(row, c)) \/ IsNum(Cell(row, c))

\* C7: convert_quantity returns value * factor for a number and for text
\* that reads as a number, returns None for None and for text that does
\* not, and never raises; the spin coating record stores the annealing
\* time as minutes * 60, the solution volume, the solvent volume and the
\* solute concentration as the cell / 1000, and None where the cell is
\* missing, without an exception.
C7_ConvertQuantity ==
    /\ (pc = "returned" /\ table.call = "convert_quantity") =>
           /\ ~IsRaise(data)
           /\ IsNum(table.value) => IsProduct(data, table.value, table.factor)
           /\ table.value = Str(<<"1", "2">>) =>
                  IsProduct(data, Num(12), table.factor)
           /\ table.value = Str(<<"1", ".", "5">>) =>
                  IsProduct(data, Frac(3, 2), table.factor)
           /\ table.value \in {None, Str(<<"a", "b", "c">>), EmptyStr} => data = None
    /\ (/\ pc = "returned"
        /\ table.call = "SpinCoating"
        /\ NumericCells(table.row)) =>
           /\ archives[1].t = "ok"
           /\ LET a == archives[1].archive
                  row == table.row
                  details == a.solution[1].solution_details
              IN  /\ Converted(a.annealing.time,
                               Cell(row, "Annealing time [min]"), Num(60))
                  /\ Converted(a.solution[1].solution_volume,
                               Cell(row, "Solution volume [um]"),
                               Frac(1, 1000))
                  /\ \A n \in 1..Len(details.solvent) :
                         Converted(details.solvent[n].chemical_volume,
                                   Cell(row, "Solvent 1 volume [uL]"),
                                   Frac(1, 1000))
                  /\ \A n \in 1..Len(details.solute) :
                         Converted(details.solute[n].concentration_mol,
                                   Cell(row, "Solute 1 Concentration [mM]"),
                                   Frac(1, 1000))
                  /\ Len(details.solvent)
                         = IF isna(Cell(row, "Solvent 1 name"))
                              /\ Cell(row, "Solvent 1 volume [uL]")
                                     \in {NaN, Num(0)}
                           THEN 0 ELSE 1
                  /\ Len(details.solute)
                         = IF isna(Cell(row, "Solute 1 type"))
                              /\ isna(Cell(row, "Solute 1 Concentration [mM]"))
                           THEN 0 ELSE 1

\* A spin coating of 10 min annealing, 100 of solution, 500 uL of solvent
\* and 1500 mM of solute: 600, 1/10, 1/2 and 3/2 are stored.
C7_Witness ==
    /\ pc = "returned"
    /\ table.call = "SpinCoating"
    /\ archives[1].t = "ok"
    /\ archives[1].archive.annealing.time = Num(600)
    /\ archives[1].archive.solution[1].solution_volume = Frac(1, 10)
    /\ Len(archives[1].archive.solution[1].solution_details.solvent) = 1
    /\ archives[1].archive.solution[1].solution_details.solvent[1]
           .chemical_volume = Frac(1, 2)
    /\ Len(archives[1].archive.solution[1].solution_details.solute) = 1
    /\ archives[1].archive.solution[1].solution_details.solute[1]
           .concentration_mol = Frac(3, 2)

\* The sub-record an evaporation record carries is filled from the row.
Filled(e, row) ==
    /\ e.thickness = get_value(row, "Thickness [nm]", None, TRUE)
    /\ e.start_rate = get_value(row, "Rate [angstrom/s]", None, TRUE)
    /\ e.chemical_2.name = get_value(row, "Material name", None, FALSE)

\* C10: for an Evaporation row with a 'Material name', map_evaporation
\* returns a record with exactly one evaporation sub-record, filled from
\* the row: an organic one when 'Organic' starts with y or 1, an inorganic
\* one when it starts with n or 0, whatever the 'Organic' cell holds.
C10_EvaporationSubRecord ==
    (/\ pc = "returned"
     /\ table.call = "Evaporation"
     /\ ~isna(Cell(table.row, "Material name"))) =>
        /\ archives[1].t = "ok"
        /\ LET a == archives[1].archive
           IN  /\ Len(a.organic_evaporation) + Len(a.inorganic_evaporation) = 1
               /\ \A n \in 1..Len(a.organic_evaporation) :
                      /\ Filled(a.organic_evaporation[n], table.row)
                      /\ OrganicStartsWith(table.row, {"y", "1"})
               /\ \A n \in 1..Len(a.inorganic_evaporation) :
                      /\ Filled(a.inorganic_evaporation[n], table.row)
                      /\ OrganicStartsWith(table.row, {"n", "0"})

---------------------------------------------------------------------------
(* Records per distinct row *)

\* The kind of record each header names.
KindOf ==
    [Cleaning |-> "peroTF_Cleaning",
     Generic |-> "peroTF_Process",
     Evaporation |-> "peroTF_Evaporation",
     SpinCoating |-> "peroTF_SpinCoating",
     InkjetPrinting |-> "peroTF_InkjetPrinting",
     DipCoating |-> "peroTF_DipCoating",
     Sputtering |-> "peroTF_Sputtering",
     ALD |-> "peroTF_ALD"]

\* The pass for row r of group h is over: it ran to its end, or an
\* exception left it.
PassEnded(h, r) ==
    \/ PassDone(h, r)
    \/ /\ pc = "error"
       /\ g = h
       /\ g # Info
       /\ drop_duplicates(table, g, Columns(table, g))[k] = r

\* The process records in archives named '<h-1>_<label of r>_...'.
RecordsOf(h, r) ==
    {n \in 1..Len(archives) :
        /\ archives[n].archive.kind \notin {"peroTF_Batch", "peroTF_Sample"}
        /\ archives[n].archive.positon_in_experimental_plan = Num(h - 1)
        /\ StartsWith(archives[n].name.s,
                      Format(Num(h - 1)) \o <<"_">> \o Format(Label(r))
                          \o <<"_">>)}

\* C9: once the pass for a distinct row of a process group is over, the
\* row has given one record of the kind the header names when the group is
\* Cleaning or Generic Process or the row has a 'Material name', and none
\* otherwise.
C9_OneRecordPerDistinctRow ==
    \A h \in ProcessGroups : \A r \in 1..NRows(table) :
        \A f \in DOMAIN Keywords :
            (/\ table.headers[h] = Keywords[f]
             /\ r = Nth(Sharing(h, r), 1)
             /\ PassEnded(h, r)) =>
                /\ Cardinality(RecordsOf(h, r))
                       = IF \/ f \in {"Cleaning", "Generic"}
                            \/ ~isna(Content(h, r)["Material name"])
                         THEN 1 ELSE 0
                /\ \A n \in RecordsOf(h, r) :
                       archives[n].archive.kind = KindOf[f]

---------------------------------------------------------------------------
(* Quenching *)

\* The row has a cell under c that is not missing and not blank text.
Present(row, c) ==
    /\ ~isna(Cell(row, c))
    /\ IsStr(Cell(row, c)) => Strip(Cell(row, c).s) # <<>>

\* C11: a spin coating record has one quenching at most: gas quenching
\* when 'Gas' is present, else vacuum quenching when 'Vacuum quenching
\* duration [s]' is present, else anti-solvent quenching when 'Anti solvent
\* name' is present, else none.
C11_QuenchingPrecedence ==
    (/\ pc = "returned"
     /\ table.call = "SpinCoating"
     /\ archives[1].t = "ok") =>
        LET q == archives[1].archive.quenching
            row == table.row
        IN  IF Present(row, "Gas")
            THEN /\ q # None
                 /\ q.kind = "GasQuenchingWithNozzle"
                 /\ q.gas = Str(Strip(Cell(row, "Gas").s))
            ELSE IF Present(row, "Vacuum quenching duration [s]")
            THEN /\ q # None
                 /\ q.kind = "VacuumQuenching"
                 /\ q.duration = Cell(row, "Vacuum quenching duration [s]")
            ELSE IF Present(row, "Anti solvent name")
            THEN /\ q # None
                 /\ q.kind = "AntiSolventQuenching"
                 /\ q.anti_solvent_2.name = Cell(row, "Anti solvent name")
                 /\ q.anti_solvent_volume
                        = IF isna(Cell(row, "Anti solvent volume [ml]"))
                          THEN None
                          ELSE Cell(row, "Anti solvent volume [ml]")
            ELSE q = None

\* All three columns are present and the record has the gas quenching.
C11_Witness ==
    /\ pc = "returned"
    /\ table.call = "SpinCoating"
    /\ Present(table.row, "Gas")
    /\ Present(table.row, "Vacuum quenching duration [s]")
    /\ Present(table.row, "Anti solvent name")
    /\ archives[1].t = "ok"
    /\ archives[1].archive.quenching.kind = "GasQuenchingWithNozzle"

---------------------------------------------------------------------------
(* get_value *)

\* s is t without the whitespace at its two ends.
IsStripped(s, t) ==
    /\ s = <<>> \/ (s[1] \notin Whitespace /\ s[Len(s)] \notin Whitespace)
    /\ \E a \in 0..Len(t) : \E b \in 0..(Len(t) - a) :
           /\ s = SubSeq(t, a + 1, Len(t) - b)
           /\ \A n \in 1..a : t[n] \in Whitespace
           /\ \A n \in (Len(t) - b + 1)..Len(t) : t[n] \in Whitespace

\* C12: get_value returns default when the row has no column key or the
\* cell is missing; else, with number true, the cell as a number, raising
\* when the cell is text that is not a number; else, with number false, the
\* cell's text without the whitespace at its ends.
C12_GetValue ==
    (pc = "returned" /\ table.call = "get_value") =>
        LET cell == Cell(table.row, table.key)
        IN  IF table.key \notin DOMAIN table.row.v \/ isna(cell)
            THEN data = table.default
            ELSE IF table.number
            THEN /\ IsNum(cell) => data = cell
                 /\ cell = Str(<<"1", "2">>) => data = Num(12)
                 /\ cell = Str(<<" ", "1", ".", "5">>) => data = Frac(3, 2)
                 /\ cell \in {Str(<<" ", "a", "b", " ">>), Str(<<"a", "b", "c">>), Str(<<" ">>), EmptyStr} =>
                        data = Raise("ValueError")
            ELSE /\ IsStr(data)
                 /\ IsStr(cell) => IsStripped(data.s, cell.s)

\* A call with number true on a text cell that is not a number has raised
\* although a default was given.
C12_Witness ==
    /\ pc = "returned"
    /\ table.call = "get_value"
    /\ table.number
    /\ Cell(table.row, table.key) = Str(<<"a", "b", "c">>)
    /\ table.default = Num(0)
    /\ IsRaise(data)

---------------------------------------------------------------------------
(* File names, references and the order of mapping and archiving *)

\* C13: when parse is done no two create_archive calls were given the
\* same file name, whatever Nomad IDs the rows hold.
C13_FileNamesDistinct ==
    pc = "done" =>
        \A m \in 1..Len(created) : \A n \in 1..Len(created) :
            m # n => created[m].file_name # created[n].file_name

\* The file names create_archive was called with.
Archived == {created[n].file_name : n \in 1..Len(created)}

\* The sample records archived.
Samples ==
    {n \in 1..Len(created) : created[n].archive.kind = "peroTF_Sample"}

\* The true links of a record: those of Links, all of them.
LinkSet(a) == {Links(a)[l] : l \in 1..Len(Links(a))}

\* C14: when parse is done every reference held by a record is the
\* reference of a file name a record was archived under, the ids linked by
\* the batch are exactly the ids of the sample records, and the ids linked
\* by a process record are ids of sample records.
C14_ReferencesResolve ==
    pc = "done" =>
        /\ \A n \in 1..Len(created) : \A l \in LinkSet(created[n].archive) :
               \E f \in Archived : l.reference = get_reference(upload_id, f)
        /\ \A n \in Samples :
               \E f \in Archived :
                   created[n].archive.substrate = get_reference(upload_id, f)
        /\ \A n \in 1..Len(created) :
               created[n].archive.kind = "peroTF_Batch" =>
                   {l.lab_id : l \in LinkSet(created[n].archive)}
                       = {created[m].archive.lab_id : m \in Samples}
        /\ \A n \in 1..Len(created) :
               {l.lab_id : l \in LinkSet(created[n].archive)}
                   \subseteq {created[m].archive.lab_id : m \in Samples}

\* C15: create_archive is not called, no reference is listed and
\* archive.data is not set before the three mapping loops have ended; a
\* parse that an exception ended has archived nothing and left
\* archive.data unset.
C15_MapBeforeArchive ==
    /\ (created # <<>> \/ refs # <<>>) =>
           pc \in {"archive_substrates", "archive_records", "set_data", "done"}
    /\ data # None => pc = "done"
    /\ pc = "error" => (created = <<>> /\ refs = <<>> /\ data = None)

\* The process loop raised after a substrate, the batch and a sample were
\* built: nothing has been archived.
C15_Witness ==
    /\ pc = "error"
    /\ error = "AttributeError"
    /\ Len(substrates) >= 1
    /\ Len(archives) >= 2
    /\ created = <<>>
    /\ data = None

---------------------------------------------------------------------------
(* is_mainfile *)

\* The table of the file has an 'Experiment Info' group with a 'Nomad ID'
\* column.
HasNomadIdColumn ==
    /\ \E h \in 1..Len(table.headers) : table.headers[h] = ExperimentInfo
    /\ \A r \in 1..NRows(table) : "Nomad ID" \in DOMAIN table.rows[r][Info]

\* C16: is_mainfile returns False when the parent matcher rejects the
\* file, when the table cannot be read or when it has no 'Experiment Info'
\* or no 'Nomad ID' column, and True otherwise; a file it accepts has a
\* Nomad ID that is not missing, and parse on it gets past the batch id
\* without an IndexError.
C16_AcceptedFilesHaveAnId ==
    /\ pc # "is_mainfile" =>
           ((pc = "rejected")
                <=> (\/ ~table.matches
                     \/ ~table.readable
                     \/ ~HasNomadIdColumn))
    /\ pc \notin {"is_mainfile", "rejected"} => WithId # {}
    /\ ~(pc = "error" /\ error = "IndexError")

=============================================================================
